---- MODULE Spec2Model ----
(***************************************************************************)
(* Model of the Mojo executor with binary caching                          *)
(* (src/src/py_run_mojo/executor.py) and of the source validator           *)
(* (src/src/mojo_marimo/validator.py).                                     *)
(*                                                                         *)
(* A source text is a sequence of characters.  To keep the texts short a   *)
(* character is either one of the three white-space characters SP, TAB,    *)
(* NL or a lexeme ("fn", "main()", ":", ...) standing for the characters   *)
(* it is spelled with.                                                     *)
(***************************************************************************)
EXTENDS Integers, Sequences, FiniteSets, TLC

SP  == "SP"
TAB == "TAB"
NL  == "NL"

\* str.isspace() for one character
IsSpace(c) == c \in {SP, TAB, NL}

\* characters matched by the regular expression class \w
IsWord(c) == c \in {"fn", "def", "let", "var", "x", "a", "n", "0", "1", "5",
                    "7", "int", "str", "bool", "Int", "print", "range", "pass",
                    "helper", "True", "False"}

\* characters matched by the regular expression class \d
IsDigit(c) == c \in {"0", "1", "5", "7"}

----------------------------------------------------------------------------
(* String primitives of the host language, as the code uses them *)

RECURSIVE LStrip(_)
LStrip(s) == IF s # <<>> /\ IsSpace(Head(s)) THEN LStrip(Tail(s)) ELSE s

RECURSIVE RStrip(_)
RStrip(s) == IF s # <<>> /\ IsSpace(s[Len(s)])
             THEN RStrip(SubSeq(s, 1, Len(s) - 1)) ELSE s

\* nothing is removed
Strip_Identity(s) == s

\* str.strip()
Strip(s) == RStrip(LStrip(s))

\* str.split('\n'): always at least one (possibly empty) line
RECURSIVE SplitFrom(_, _)
SplitFrom(s, cur) ==
    IF s = <<>> THEN <<cur>>
    ELSE IF Head(s) = NL THEN <<cur>> \o SplitFrom(Tail(s), <<>>)
    ELSE SplitFrom(Tail(s), Append(cur, Head(s)))

Split(s) == SplitFrom(s, <<>>)

\* '\n'.join(lines)
RECURSIVE Join(_)
Join(lines) ==
    IF lines = <<>> THEN <<>>
    ELSE IF Len(lines) = 1 THEN lines[1]
    ELSE lines[1] \o <<NL>> \o Join(Tail(lines))

\* str.startswith(prefix)
StartsWith(s, prefix) ==
    /\ Len(s) >= Len(prefix)
    /\ SubSeq(s, 1, Len(prefix)) = prefix

\* str.endswith(c) for a single character
EndsWith(s, c) == s # <<>> /\ s[Len(s)] = c

\* the leading run of blanks or tabs of a line
RECURSIVE LeadingBlank(_)
LeadingBlank(line) ==
    IF line # <<>> /\ Head(line) \in {SP, TAB}
    THEN <<Head(line)>> \o LeadingBlank(Tail(line)) ELSE <<>>

\* longest common prefix of two sequences
RECURSIVE CommonPrefix(_, _)
CommonPrefix(a, b) ==
    IF a # <<>> /\ b # <<>> /\ Head(a) = Head(b)
    THEN <<Head(a)>> \o CommonPrefix(Tail(a), Tail(b)) ELSE <<>>

\* textwrap.dedent: blank-only lines become empty, then the longest common
\* leading white space of the remaining non-empty lines is removed
RECURSIVE Margin(_, _, _)
Margin(lines, i, m) ==
    IF i > Len(lines) THEN m
    ELSE IF lines[i] = <<>> THEN Margin(lines, i + 1, m)
    ELSE IF m = <<"none">> THEN Margin(lines, i + 1, LeadingBlank(lines[i]))
    ELSE Margin(lines, i + 1, CommonPrefix(m, LeadingBlank(lines[i])))

dedent(text) ==
    LET raw    == Split(text)
        lines  == [i \in 1..Len(raw) |->
                      IF LeadingBlank(raw[i]) = raw[i] THEN <<>> ELSE raw[i]]
        m0     == Margin(lines, 1, <<"none">>)
        margin == IF m0 = <<"none">> THEN <<>> ELSE m0
    IN  Join([i \in 1..Len(lines) |->
                 IF lines[i] = <<>> THEN <<>>
                 ELSE SubSeq(lines[i], Len(margin) + 1, Len(lines[i]))])

----------------------------------------------------------------------------
(* validate_mojo_code *)

NoError == <<"None">>

\* smallest element of a non-empty set of integers
Min(S) == CHOOSE x \in S : \A y \in S : x <= y

\* re.search(r'^<kw> main\(\)', code, re.MULTILINE)
HasMainDecl(code, kw) ==
    \E i \in 1..Len(Split(code)) : StartsWith(Split(code)[i], <<kw, SP, "main()">>)

\* line.lstrip().startswith(...) for the two groups of prefixes of the loop
IsDeclLine(stripped) ==
    \/ \E kw \in {"from", "import", "fn", "def", "struct"} :
          StartsWith(stripped, <<kw, SP>>)
    \/ StartsWith(stripped, <<"#">>)

IsStatementLine(stripped) ==
    \/ \E kw \in {"return", "var", "if", "for", "while"} :
          StartsWith(stripped, <<kw, SP>>)
    \/ StartsWith(stripped, <<"print(">>)

\* the lines the first loop rejects: a statement at indentation 0
FileScopeLines(lines) ==
    {i \in 1..Len(lines) :
        /\ Strip(lines[i]) # <<>>
        /\ ~IsDeclLine(LStrip(lines[i]))
        /\ IsStatementLine(LStrip(lines[i]))
        /\ Len(lines[i]) - Len(LStrip(lines[i])) = 0}

\* the lines the second loop rejects: a declaration that does not end in ':'
MissingColonLines(lines) ==
    {i \in 1..Len(lines) :
        /\ \E kw \in {"fn", "def"} : StartsWith(Strip(lines[i]), <<kw, SP>>)
        /\ ~EndsWith(Strip(lines[i]), ":")}

\* length of the run of white space that starts at position i
RECURSIVE SpaceRun(_, _)
SpaceRun(code, i) ==
    IF i <= Len(code) /\ IsSpace(code[i]) THEN 1 + SpaceRun(code, i + 1) ELSE 0

\* ^ under re.MULTILINE: the start of the text or just after a newline
AtLineStart(code, i) == i = 1 \/ (i > 1 /\ code[i - 1] = NL)

\* re.search(r'\blet\s+\w+', code)
HasLet(code) ==
    \E i \in 1..Len(code) :
        /\ code[i] = "let"
        /\ SpaceRun(code, i + 1) >= 1
        /\ i + 1 + SpaceRun(code, i + 1) <= Len(code)
        /\ IsWord(code[i + 1 + SpaceRun(code, i + 1)])

\* re.search(r'^\s+print\s+(?!\()', code, re.MULTILINE): the second run of
\* white space may stop early, so two or more white-space characters after
\* print always match
HasBarePrint(code) ==
    \E i \in 1..Len(code) :
        /\ AtLineStart(code, i)
        /\ SpaceRun(code, i) >= 1
        /\ \E j \in (i + 1)..(i + SpaceRun(code, i)) :
              /\ j <= Len(code)
              /\ code[j] = "print"
              /\ SpaceRun(code, j + 1) >= 1
              /\ \/ SpaceRun(code, j + 1) >= 2
                 \/ j + 2 > Len(code)
                 \/ code[j + 2] # "("

\* re.search(r':\s*<name>\b', code)
HasLowerType(code, name) ==
    \E i \in 1..Len(code) :
        /\ code[i] = ":"
        /\ i + 1 + SpaceRun(code, i + 1) <= Len(code)
        /\ code[i + 1 + SpaceRun(code, i + 1)] = name

\* re.search(r'\brange\s+\d', code)
HasBareRange(code) ==
    \E i \in 1..Len(code) :
        /\ code[i] = "range"
        /\ SpaceRun(code, i + 1) >= 1
        /\ i + 1 + SpaceRun(code, i + 1) <= Len(code)
        /\ IsDigit(code[i + 1 + SpaceRun(code, i + 1)])

\* the keyword named in the file-scope message
Keyword(stripped) == IF Head(stripped) = "print(" THEN "print" ELSE Head(stripped)

\* the check for let comes before the check for a main function
validate_mojo_code_LetFirst(code) ==
    LET lines      == Split(Strip(code))
        has_tabs   == \E i \in 1..Len(lines) :
                         /\ Strip(lines[i]) # <<>>
                         /\ \E j \in 1..Len(lines[i]) : lines[i][j] = TAB
        has_spaces == \E i \in 1..Len(lines) : StartsWith(lines[i], <<SP>>)
    IN  IF Strip(code) = <<>> THEN
            <<FALSE, <<"Empty code provided">> >>
        ELSE IF HasLet(code) THEN
            <<FALSE, <<"'let' keyword is deprecated in Mojo - use 'var' instead">> >>
        ELSE IF ~(HasMainDecl(code, "fn") \/ HasMainDecl(code, "def")) THEN
            <<FALSE, <<"Missing 'fn main()' or 'def main()' - Mojo executables require a main function">> >>
        ELSE IF has_tabs /\ has_spaces THEN
            <<FALSE, <<"Mixed tabs and spaces in indentation">> >>
        ELSE IF FileScopeLines(lines) # {} THEN
            <<FALSE, <<"Line", Min(FileScopeLines(lines)),
                       Keyword(LStrip(lines[Min(FileScopeLines(lines))])),
                       "at file scope (must be inside a function)">> >>
        ELSE IF MissingColonLines(lines) # {} THEN
            <<FALSE, <<"Line", Min(MissingColonLines(lines)),
                       "Function declaration missing colon (':') at end">> >>
        ELSE IF HasBarePrint(code) THEN
            <<FALSE, <<"print requires parentheses: print(...) not print ...">> >>
        ELSE IF HasLowerType(code, "int") THEN
            <<FALSE, <<"Use 'Int' (capitalized) for integer types in Mojo, not 'int'">> >>
        ELSE IF HasLowerType(code, "str") THEN
            <<FALSE, <<"Use 'String' for string types in Mojo, not 'str'">> >>
        ELSE IF HasLowerType(code, "bool") THEN
            <<FALSE, <<"Use 'Bool' (capitalized) for boolean types in Mojo, not 'bool'">> >>
        ELSE IF HasBareRange(code) THEN
            <<FALSE, <<"'range' requires parentheses: range(n) not range n">> >>
        ELSE <<TRUE, NoError>>

\* validate_mojo_code(code) -> <<is_valid, error_message>>; a message is a
\* tuple of its parts (the text, and the line number and keyword if any)
validate_mojo_code(code) ==
    LET lines      == Split(Strip(code))
        has_tabs   == \E i \in 1..Len(lines) :
                         /\ Strip(lines[i]) # <<>>
                         /\ \E j \in 1..Len(lines[i]) : lines[i][j] = TAB
        has_spaces == \E i \in 1..Len(lines) : StartsWith(lines[i], <<SP>>)
    IN  IF Strip(code) = <<>> THEN
            <<FALSE, <<"Empty code provided">> >>
        ELSE IF ~(HasMainDecl(code, "fn") \/ HasMainDecl(code, "def")) THEN
            <<FALSE, <<"Missing 'fn main()' or 'def main()' - Mojo executables require a main function">> >>
        ELSE IF has_tabs /\ has_spaces THEN
            <<FALSE, <<"Mixed tabs and spaces in indentation">> >>
        ELSE IF FileScopeLines(lines) # {} THEN
            <<FALSE, <<"Line", Min(FileScopeLines(lines)),
                       Keyword(LStrip(lines[Min(FileScopeLines(lines))])),
                       "at file scope (must be inside a function)">> >>
        ELSE IF MissingColonLines(lines) # {} THEN
            <<FALSE, <<"Line", Min(MissingColonLines(lines)),
                       "Function declaration missing colon (':') at end">> >>
        ELSE IF HasLet(code) THEN
            <<FALSE, <<"'let' keyword is deprecated in Mojo - use 'var' instead">> >>
        ELSE IF HasBarePrint(code) THEN
            <<FALSE, <<"print requires parentheses: print(...) not print ...">> >>
        ELSE IF HasLowerType(code, "int") THEN
            <<FALSE, <<"Use 'Int' (capitalized) for integer types in Mojo, not 'int'">> >>
        ELSE IF HasLowerType(code, "str") THEN
            <<FALSE, <<"Use 'String' for string types in Mojo, not 'str'">> >>
        ELSE IF HasLowerType(code, "bool") THEN
            <<FALSE, <<"Use 'Bool' (capitalized) for boolean types in Mojo, not 'bool'">> >>
        ELSE IF HasBareRange(code) THEN
            <<FALSE, <<"'range' requires parentheses: range(n) not range n">> >>
        ELSE <<TRUE, NoError>>

----------------------------------------------------------------------------
(* The programs the callers submit *)

MainDecl == <<"fn", SP, "main()", ":">>
PrintA   == <<"print(", "a", ")">>
Ind(line) == <<SP, SP>> \o line

\* str.replace(old, new): every occurrence of old, left to right, without
\* overlap
RECURSIVE Replace(_, _, _)
Replace(s, old, new) ==
    IF Len(s) < Len(old) THEN s
    ELSE IF StartsWith(s, old)
         THEN new \o Replace(SubSeq(s, Len(old) + 1, Len(s)), old, new)
    ELSE <<Head(s)>> \o Replace(Tail(s), old, new)

\* a placeholder in single braces
Placeholder_SingleBrace(param_name) == <<"{", param_name, "}">>

\* f"{{{{{param_name}}}}}"
Placeholder(param_name) == <<"{{", param_name, "}}">>

\* the wrapper of the decorator, lines 67-70: one replacement for each bound
\* argument, in the order of the signature; each argument is a parameter name
\* and the str() of its value
RECURSIVE Render(_, _)
Render(mojo_template, arguments) ==
    IF arguments = <<>> THEN mojo_template
    ELSE Render(Replace(mojo_template, Placeholder(arguments[1].name),
                        arguments[1].value),
                Tail(arguments))

\* the docstring of a decorated function with one parameter n
EchoTemplate ==
    <<NL>> \o Ind(Ind(MainDecl)) \o <<NL>>
           \o Ind(Ind(Ind(<<"print(", "{{", "n", "}}", ")">>))) \o <<NL>>
           \o Ind(Ind(<<>>))

\* the docstring with the digits d typed where the placeholder stands
EchoLiteral(d) ==
    <<NL>> \o Ind(Ind(MainDecl)) \o <<NL>>
           \o Ind(Ind(Ind(<<"print(", d, ")">>))) \o <<NL>>
           \o Ind(Ind(<<>>))

\* the call echo(v) of the decorated function
Echo(v) == Render(EchoTemplate, <<[name |-> "n", value |-> <<v>>]>>)

\* the arguments of run_mojo: file = TRUE when `source` names an existing
\* file whose content is `text`, FALSE when `source` is the text itself
Catalogue == <<
    \* 1: prints a, exits 0
    [file |-> FALSE, text |-> MainDecl \o <<NL>> \o Ind(PrintA)],
    \* 2: prints a, then exits non-zero
    [file |-> FALSE, text |-> MainDecl \o <<NL>> \o Ind(PrintA) \o <<NL>> \o Ind(<<"abort()">>)],
    \* 3: prints nothing, exits non-zero
    [file |-> FALSE, text |-> MainDecl \o <<NL>> \o Ind(<<"abort()">>)],
    \* 4: passes the validator, rejected by the compiler
    [file |-> FALSE, text |-> MainDecl \o <<NL>> \o Ind(<<"x", "=", "undefined">>)],
    \* 5: no main function
    [file |-> FALSE, text |-> <<"fn", SP, "helper()", ":">> \o <<NL>> \o Ind(PrintA)],
    \* 6: a file that holds program 1
    [file |-> TRUE,  text |-> MainDecl \o <<NL>> \o Ind(PrintA)],
    \* 7: empty
    [file |-> FALSE, text |-> <<>>],
    \* 8: prints nothing, exits 0
    [file |-> FALSE, text |-> MainDecl \o <<NL>> \o Ind(<<"pass">>)],
    \* 9: prints an empty line, exits 0
    [file |-> FALSE, text |-> MainDecl \o <<NL>> \o Ind(<<"print(", ")">>)],
    \* 10: program 1 written as an indented literal
    [file |-> FALSE, text |-> Ind(MainDecl) \o <<NL>> \o Ind(Ind(PrintA))],
    \* 11: program 1 as a triple-quoted literal (leading and trailing newline)
    [file |-> FALSE, text |-> <<NL>> \o MainDecl \o <<NL>> \o Ind(PrintA) \o <<NL>>],
    \* 12: a statement at file scope
    [file |-> FALSE, text |-> MainDecl \o <<NL>> \o Ind(PrintA) \o <<NL>> \o <<"var", SP, "x", SP, "=", SP, "1">>],
    \* 13: blank characters only
    [file |-> FALSE, text |-> <<SP, NL, SP>>],
    \* 14: the decorated function called with 5
    [file |-> FALSE, text |-> Echo("5")],
    \* 15: the decorated function called with 7
    [file |-> FALSE, text |-> Echo("7")],
    \* 16: the program of 14 written out by hand, without indentation
    [file |-> FALSE, text |-> <<NL>> \o MainDecl \o <<NL>> \o Ind(<<"print(", "5", ")">>) \o <<NL>>],
    \* 17: the docstring of the decorated function with 5 typed in place of
    \* the placeholder
    [file |-> FALSE, text |-> EchoLiteral("5")],
    \* 18: the same with 7
    [file |-> FALSE, text |-> EchoLiteral("7")],
    \* 19: the decorated function called with 0: prints 0
    [file |-> FALSE, text |-> Echo("0")],
    \* 20: the decorated function called with False: prints False
    [file |-> FALSE, text |-> Echo("False")]
>>

\* the catalogue entries that reach run_mojo through the decorator; the
\* wrapper passes use_cache=True (line 73)
Decorated == {14, 15}

\* for each decorated call, the direct call on the literal source
LiteralOf == (14 :> 17) @@ (15 :> 18)

\* the callers submit the first MaxSource entries of the catalogue
MaxSource == 6

AllSources == 1..Len(Catalogue)

Sources == 1..MaxSource

\* run_mojo, lines 96-98: `not source.strip()`; a path is never blank
EmptySource(i) == ~Catalogue[i].file /\ Strip(Catalogue[i].text) = <<>>

\* the text is trimmed as well as dedented
MojoCode_Trimmed(i) ==
    IF Catalogue[i].file THEN Catalogue[i].text
    ELSE Strip(dedent(Catalogue[i].text))

\* run_mojo, lines 104-116: the program text of argument i
MojoCode(i) ==
    IF Catalogue[i].file THEN Catalogue[i].text ELSE dedent(Catalogue[i].text)

\* hashlib.sha256(...).hexdigest()[:16], assumed free of collisions on the
\* texts of the catalogue: the digest of a text is the number of the first
\* catalogue entry that resolves to it
code_hash(text) == Min({i \in AllSources : MojoCode(i) = text})

\* a key that does not depend on the text
cache_key_Constant(text) == <<"mojo_", 0>>

\* f"mojo_{code_hash}"
cache_key(text) == <<"mojo_", code_hash(text)>>

\* the text and the verdict of each catalogue entry
CodeOf  == [i \in AllSources |-> MojoCode(i)]
ValidOf == [i \in AllSources |-> validate_mojo_code(CodeOf[i])[1]]

\* a key for each catalogue entry, whatever its text
KeyOf_PerCallSite == [i \in AllSources |-> <<"mojo_", i>>]

\* the cache key of each catalogue entry
KeyOf   == [i \in AllSources |-> cache_key(CodeOf[i])]

----------------------------------------------------------------------------
(* The external processes *)

\* `mojo build`, for a text the validator let through: does the compiler
\* accept it
Compiles(text) ==
    \A j \in 1..Len(text) : text[j] # "undefined"

\* what the binary of a text writes to stdout
RECURSIVE Stdout(_)
Stdout(text) ==
    IF text = <<>> THEN <<>>
    ELSE IF StartsWith(text, <<"print(", ")">>)
         THEN <<NL>> \o Stdout(SubSeq(text, 3, Len(text)))
    ELSE IF Len(text) >= 3 /\ text[1] = "print(" /\ text[3] = ")"
         THEN <<text[2], NL>> \o Stdout(SubSeq(text, 4, Len(text)))
    ELSE Stdout(Tail(text))

\* the exit status of the binary of a text
ReturnCode(text) == IF \E j \in 1..Len(text) : text[j] = "abort()" THEN 1 ELSE 0

----------------------------------------------------------------------------
(* Results *)

None      == <<"None">>
Str(s)    == <<"Str", s>>
Raised    == <<"Raised">>
NotYet    == <<"NotYet">>

\* the captured output wins over the exit status
RunResult_OutputFirst(stdout, returncode) ==
    IF stdout # <<>> THEN Str(Strip(stdout)) ELSE None

\* run_mojo, lines 179-191: the value returned after the binary has run
RunResult(stdout, returncode) ==
    LET output == IF stdout # <<>> THEN Str(Strip(stdout)) ELSE None
    IN  IF returncode # 0 THEN None ELSE output

----------------------------------------------------------------------------
(* The values a decorated function returns *)

\* A value is written <<type, v>>: <<"int", 0>> is 0, <<"bool", FALSE>> is
\* False, <<"float", 0>> is 0.0; an exception is written <<name>>.

\* the value of each decimal digit
DigitValue == ("0" :> 0) @@ ("1" :> 1) @@ ("5" :> 5) @@ ("7" :> 7)

\* the number a non-empty string of decimal digits denotes
RECURSIVE Decimal(_)
Decimal(s) ==
    IF Len(s) = 1 THEN DigitValue[s[1]]
    ELSE 10 * Decimal(SubSeq(s, 1, Len(s) - 1)) + DigitValue[s[Len(s)]]

\* int(result) and float(result) of a string, type being "int" or "float"
Number(type, s) ==
    IF s # <<>> /\ \A j \in 1..Len(s) : s[j] \in DOMAIN DigitValue
    THEN <<type, Decimal(s)>>
    ELSE <<"ValueError">>

\* the conversion functions applied to whatever run_mojo returned
Convert_Unguarded(return_type, result) ==
    CASE return_type = "int" ->
             IF result = None THEN <<"TypeError">> ELSE Number("int", result[2])
      [] return_type = "bool" ->
             IF result = None THEN <<"bool", FALSE>>
             ELSE <<"bool", result[2] = <<"True">>>>
      [] return_type = "float" ->
             IF result = None THEN <<"TypeError">> ELSE Number("float", result[2])
      [] OTHER -> result

\* decorator.py lines 75-83; `if result` is false for None and for ""
Convert(return_type, result) ==
    LET truthy == result # None /\ result # Str(<<>>)
    IN  CASE return_type = "int" ->
                 IF truthy THEN Number("int", result[2]) ELSE <<"int", 0>>
          [] return_type = "bool" ->
                 IF truthy THEN <<"bool", result[2] = <<"True">>>> ELSE <<"bool", FALSE>>
          [] return_type = "float" ->
                 IF truthy THEN Number("float", result[2]) ELSE <<"float", 0>>
          [] OTHER -> result

----------------------------------------------------------------------------
(* State *)

\* number of callers that may have a run_mojo call in progress
NumProcs == 2

Procs == 1..NumProcs

VARIABLES
    root,      \* CACHE_DIR exists
    files,     \* the content of CACHE_DIR: cache key -> binary
    calls,     \* per caller: the locals of its run_mojo call
    last,      \* the run_mojo call that returned most recently
    prevOp,    \* the public operation that completed most recently
    report,    \* what the most recent cache_stats printed
    verdict,   \* the most recent direct call of validate_mojo_code
    version,   \* the most recent call of get_mojo_version
    built,     \* the cache keys compiled with success since the last clear_cache
    compiler,  \* the version of the mojo found on PATH
    wrapped    \* the most recent return of a decorated function

vars == <<root, files, calls, last, prevOp, report, verdict, version, built, compiler, wrapped>>

NoBinary == [src |-> <<>>, size |-> 0, by |-> 0]

\* no decorated function has returned to the caller
NoWrapped == [set |-> FALSE, return_type |-> "str", result |-> NotYet,
              value |-> NotYet]

\* the binary the mojo build on PATH writes for a text
Binary(text) == [src |-> text, size |-> Len(text), by |-> compiler]

\* the locals of a call that has not started
IdleCall == [pc         |-> "idle",
             src        |-> 1,
             use_cache  |-> TRUE,
             echo_code  |-> FALSE,
             echo_output |-> FALSE,
             extra_args |-> <<>>,
             echoed     |-> FALSE,   \* an echo flag made the call print
             ncompile   |-> 0,       \* compiler processes spawned
             compile_rc |-> "none",  \* none, ok, fail or raise
             tmp        |-> FALSE,   \* the scratch .mojo file is on disk
             ntmp       |-> 0,       \* scratch files created
             ran        |-> NoBinary,\* the binary this call executed
             rewrote    |-> FALSE,   \* the compiler replaced an existing file
             fault      |-> FALSE,   \* the environment failed in this call
             result     |-> NotYet,
             root0      |-> TRUE,    \* CACHE_DIR at the start of the call
             files0     |-> <<>>]

\* what is remembered of the call that returned most recently
\* (count: the entries in CACHE_DIR when it returned; cleared: clear_cache
\* has run since)
NoLast == [set |-> FALSE, src |-> 1, use_cache |-> TRUE, result |-> NotYet,
           ncompile |-> 0, compile_rc |-> "none", fault |-> FALSE, count |-> 0,
           cleared |-> FALSE]

NoReport == [shown |-> FALSE, after |-> "none", exists |-> FALSE,
             count |-> 0, total_size |-> 0]

\* no direct call of validate_mojo_code yet (again: the call was given the
\* code of the call before it; before: what that call returned)
NoVerdict == [code |-> <<>>, out |-> NotYet, again |-> FALSE, before |-> NotYet]

\* no call of get_mojo_version yet
NoVersion == [impl |-> "none",
              pkg  |-> [importable |-> FALSE, is_str |-> FALSE, text |-> <<>>],
              cli  |-> [found |-> FALSE, returncode |-> 0, stdout |-> <<>>],
              out  |-> NotYet]

\* no run_mojo call is in progress
Quiet == \A p \in Procs : calls[p].pc = "idle"

\* executor.py lines 17-18, at import: the directory exists and holds
\* whatever it held
Init ==
    /\ root = TRUE
    /\ files = <<>>
    /\ calls = [p \in Procs |-> IdleCall]
    /\ last = NoLast
    /\ prevOp = "import"
    /\ report = NoReport
    /\ verdict = NoVerdict
    /\ version = NoVersion
    /\ built = {}
    /\ compiler = 1
    /\ wrapped = NoWrapped

Entries == DOMAIN files

RECURSIVE SumSizes(_)
SumSizes(ks) ==
    IF ks = {} THEN 0
    ELSE LET k == CHOOSE x \in ks : TRUE
         IN  files[k].size + SumSizes(ks \ {k})

\* the program text of the call of caller p
Code(p) == CodeOf[calls[p].src]

\* a cache path that names the compiler as well as the text
Key_WithCompilerVersion(p) == KeyOf[calls[p].src] \o <<compiler>>

\* the cache path of the call of caller p
Key(p) == KeyOf[calls[p].src]

----------------------------------------------------------------------------
(* run_mojo, one action per step *)

\* the call is made
BeginWith(p, i, uc, ec, eo, xa) ==
    /\ calls[p].pc = "idle"
    /\ calls' = [calls EXCEPT ![p] =
                    [IdleCall EXCEPT !.pc = "resolve", !.src = i,
                                     !.use_cache = uc, !.echo_code = ec,
                                     !.echo_output = eo, !.extra_args = xa,
                                     !.root0 = root, !.files0 = files]]
    /\ report' = NoReport
    /\ UNCHANGED <<root, files, last, prevOp, verdict, version, built, compiler, wrapped>>

\* run_mojo(source, use_cache=uc): the echo flags and extra_args at their
\* defaults (lines 73-76)
Begin(p, i, uc) == BeginWith(p, i, uc, FALSE, FALSE, <<>>)

\* the call returns `value`
Finish(p, value) == [calls[p] EXCEPT !.pc = "done", !.result = value]

\* lines 96-116: the empty check, then the file is read or the text dedented
Resolve(p) ==
    /\ calls[p].pc = "resolve"
    /\ \/ /\ EmptySource(calls[p].src)
          /\ calls' = [calls EXCEPT ![p] = Finish(p, None)]
       \/ /\ ~EmptySource(calls[p].src)
          /\ calls' = [calls EXCEPT ![p].pc = "validate",
                                    ![p].echoed = calls[p].echo_code]
       \/ /\ Catalogue[calls[p].src].file      \* read_text raises OSError
          /\ calls' = [calls EXCEPT ![p] = [Finish(p, None) EXCEPT !.fault = TRUE]]
    /\ UNCHANGED <<root, files, last, prevOp, report, verdict, version, built, compiler, wrapped>>

\* the verdict is ignored
Validate_AcceptAll(p) ==
    /\ calls[p].pc = "validate"
    /\ calls' = [calls EXCEPT ![p].pc = "lookup"]
    /\ UNCHANGED <<root, files, last, prevOp, report, verdict, version, built, compiler, wrapped>>

\* lines 122-129
Validate(p) ==
    /\ calls[p].pc = "validate"
    /\ IF ValidOf[calls[p].src]
       THEN calls' = [calls EXCEPT ![p].pc = "lookup"]
       ELSE calls' = [calls EXCEPT ![p] = Finish(p, None)]
    /\ UNCHANGED <<root, files, last, prevOp, report, verdict, version, built, compiler, wrapped>>

\* the binary that is there is never used
Lookup_AlwaysCompile(p) ==
    /\ calls[p].pc = "lookup"
    /\ calls' = [calls EXCEPT ![p].pc = "write_tmp"]
    /\ UNCHANGED <<root, files, last, prevOp, report, verdict, version, built, compiler, wrapped>>

\* a compile failure is remembered: the same source is not compiled again
Lookup_RemembersFailure(p) ==
    /\ calls[p].pc = "lookup"
    /\ IF last.set /\ last.src = calls[p].src /\ last.compile_rc = "fail"
       THEN calls' = [calls EXCEPT ![p] = [calls[p] EXCEPT !.pc = "done", !.result = None]]
       ELSE IF ~calls[p].use_cache \/ ~(root /\ KeyOf[calls[p].src] \in DOMAIN files)
       THEN calls' = [calls EXCEPT ![p].pc = "write_tmp"]
       ELSE calls' = [calls EXCEPT ![p].pc = "execute"]
    /\ UNCHANGED <<root, files, last, prevOp, report, verdict, version, built, compiler, wrapped>>

\* echo_output forces a compile
Lookup_EchoCompiles(p) ==
    /\ calls[p].pc = "lookup"
    /\ IF \/ ~calls[p].use_cache \/ calls[p].echo_output
          \/ ~(root /\ KeyOf[calls[p].src] \in DOMAIN files)
       THEN calls' = [calls EXCEPT ![p].pc = "write_tmp"]
       ELSE calls' = [calls EXCEPT ![p].pc = "execute"]
    /\ UNCHANGED <<root, files, last, prevOp, report, verdict, version, built, compiler, wrapped>>

\* lines 131-139 and 163-164: compile, or use the binary that is there;
\* echo_output announces which
Lookup(p) ==
    /\ calls[p].pc = "lookup"
    /\ IF ~calls[p].use_cache \/ ~(root /\ Key(p) \in Entries)
       THEN calls' = [calls EXCEPT
                        ![p].pc = "write_tmp",
                        ![p].echoed = @ \/ (calls[p].use_cache /\ calls[p].echo_output)]
       ELSE calls' = [calls EXCEPT
                        ![p].pc = "execute",
                        ![p].echoed = @ \/ calls[p].echo_output]
    /\ UNCHANGED <<root, files, last, prevOp, report, verdict, version, built, compiler, wrapped>>

\* lines 141-144: the scratch file is created and written; creating it may
\* fail, and writing it may fail once it is there
WriteTmp(p) ==
    /\ calls[p].pc = "write_tmp"
    /\ \/ calls' = [calls EXCEPT ![p].pc = "compile", ![p].tmp = TRUE,
                                 ![p].ntmp = @ + 1]
       \/ calls' = [calls EXCEPT ![p] = [Finish(p, Raised) EXCEPT !.fault = TRUE]]
       \/ calls' = [calls EXCEPT ![p] =
                       [Finish(p, Raised) EXCEPT !.fault = TRUE, !.tmp = TRUE,
                                                 !.ntmp = @ + 1]]
    /\ UNCHANGED <<root, files, last, prevOp, report, verdict, version, built, compiler, wrapped>>

\* where mojo build writes its output
OutputPath(p) == Key(p)

\* the output file is created before the compiler has succeeded
Compile_KeepsFailedOutput(p) ==
    /\ calls[p].pc = "compile"
    /\ root
    /\ files' = [k \in Entries \cup {OutputPath(p)} |->
                    IF k = OutputPath(p) THEN Binary(Code(p)) ELSE files[k]]
    /\ calls' = [calls EXCEPT ![p].pc = "unlink", ![p].ncompile = @ + 1,
                              ![p].compile_rc =
                                  IF Compiles(Code(p)) THEN "ok" ELSE "fail"]
    /\ built' = IF Compiles(Code(p)) THEN built \cup {OutputPath(p)} ELSE built
    /\ UNCHANGED <<root, last, prevOp, report, verdict, version, compiler, wrapped>>

\* lines 146-154: mojo build <scratch> -o <output path>.  The compiler
\* writes the binary only if it accepts the text and the directory exists;
\* it may also fail for a reason of its own, or fail to start
Compile(p) ==
    /\ calls[p].pc = "compile"
    /\ \/ /\ root /\ Compiles(Code(p))
          /\ files' = [k \in Entries \cup {OutputPath(p)} |->
                          IF k = OutputPath(p) THEN Binary(Code(p)) ELSE files[k]]
          /\ calls' = [calls EXCEPT ![p].pc = "unlink", ![p].ncompile = @ + 1,
                                    ![p].compile_rc = "ok",
                                    ![p].rewrote = (OutputPath(p) \in Entries)]
          /\ built' = built \cup {OutputPath(p)}
       \/ /\ ~(root /\ Compiles(Code(p)))
          /\ files' = files
          /\ calls' = [calls EXCEPT ![p].pc = "unlink", ![p].ncompile = @ + 1,
                                    ![p].compile_rc = "fail"]
          /\ built' = built
       \/ /\ root /\ Compiles(Code(p))
          /\ files' = files
          /\ calls' = [calls EXCEPT ![p].pc = "unlink", ![p].ncompile = @ + 1,
                                    ![p].compile_rc = "fail", ![p].fault = TRUE]
          /\ built' = built
       \/ /\ files' = files
          /\ calls' = [calls EXCEPT ![p].pc = "unlink",
                                    ![p].compile_rc = "raise", ![p].fault = TRUE]
          /\ built' = built
    /\ UNCHANGED <<root, last, prevOp, report, verdict, version, compiler, wrapped>>

\* the early return after a failed compile is missing
Unlink_RunsAfterFailure(p) ==
    /\ calls[p].pc = "unlink"
    /\ calls' = [calls EXCEPT ![p] =
                    IF calls[p].compile_rc \in {"ok", "fail"}
                    THEN [calls[p] EXCEPT !.pc = "execute", !.tmp = FALSE]
                    ELSE [Finish(p, Raised) EXCEPT !.tmp = FALSE]]
    /\ UNCHANGED <<root, files, last, prevOp, report, verdict, version, built, compiler, wrapped>>

\* lines 156-161: the finally clause removes the scratch file, then the
\* compiler's exit status decides
Unlink(p) ==
    /\ calls[p].pc = "unlink"
    /\ calls' = [calls EXCEPT ![p] =
                    IF calls[p].compile_rc = "ok"
                    THEN [calls[p] EXCEPT !.pc = "execute", !.tmp = FALSE]
                    ELSE IF calls[p].compile_rc = "fail"
                    THEN [Finish(p, None) EXCEPT !.tmp = FALSE]
                    ELSE [Finish(p, Raised) EXCEPT !.tmp = FALSE]]
    /\ UNCHANGED <<root, files, last, prevOp, report, verdict, version, built, compiler, wrapped>>

\* a binary that exits non-zero is removed from the cache
Execute_DropsFailing(p) ==
    /\ calls[p].pc = "execute"
    /\ \/ /\ root /\ Key(p) \in Entries
          /\ files' = IF ReturnCode(files[Key(p)].src) # 0
                      THEN [k \in Entries \ {Key(p)} |-> files[k]]
                      ELSE files
          /\ calls' = [calls EXCEPT ![p] =
                [Finish(p, RunResult(Stdout(files[Key(p)].src),
                                     ReturnCode(files[Key(p)].src)))
                    EXCEPT !.ran = files[Key(p)],
                           !.echoed = @ \/ (/\ calls[p].echo_output
                                            /\ Stdout(files[Key(p)].src) # <<>>)]]
       \/ /\ ~(root /\ Key(p) \in Entries)
          /\ files' = files
          /\ calls' = [calls EXCEPT ![p] = Finish(p, None)]
       \/ /\ root /\ Key(p) \in Entries
          /\ files' = files
          /\ calls' = [calls EXCEPT ![p] = [Finish(p, None) EXCEPT !.fault = TRUE]]
    /\ UNCHANGED <<root, last, prevOp, report, verdict, version, built, compiler, wrapped>>

\* a call that finds the binary gone compiles it again and runs it
Execute_Recompiles(p) ==
    /\ calls[p].pc = "execute"
    /\ \/ /\ root /\ Key(p) \in Entries
          /\ files' = files
          /\ calls' = [calls EXCEPT ![p] =
                [Finish(p, RunResult(Stdout(files[Key(p)].src),
                                     ReturnCode(files[Key(p)].src)))
                    EXCEPT !.ran = files[Key(p)],
                           !.echoed = @ \/ (/\ calls[p].echo_output
                                            /\ Stdout(files[Key(p)].src) # <<>>)]]
       \/ /\ ~(root /\ Key(p) \in Entries)
          /\ files' = IF root
                      THEN [k \in Entries \cup {Key(p)} |->
                               IF k = Key(p) THEN Binary(Code(p)) ELSE files[k]]
                      ELSE files
          /\ calls' = [calls EXCEPT ![p] =
                [Finish(p, IF root
                           THEN RunResult(Stdout(Code(p)), ReturnCode(Code(p)))
                           ELSE None)
                    EXCEPT !.ncompile = @ + 1]]
       \/ /\ root /\ Key(p) \in Entries
          /\ files' = files
          /\ calls' = [calls EXCEPT ![p] = [Finish(p, None) EXCEPT !.fault = TRUE]]
    /\ UNCHANGED <<root, last, prevOp, report, verdict, version, built, compiler, wrapped>>

\* lines 166-198: the binary at the cache path is spawned with extra_args
\* (no program of the catalogue reads its arguments); a failure to spawn it
\* is caught. With echo_output a non-empty output is printed under a heading
\* that holds get_mojo_version(), which returns a string and never raises
Execute(p) ==
    /\ calls[p].pc = "execute"
    /\ \/ /\ root /\ Key(p) \in Entries
          /\ calls' = [calls EXCEPT ![p] =
                [Finish(p, RunResult(Stdout(files[Key(p)].src),
                                     ReturnCode(files[Key(p)].src)))
                    EXCEPT !.ran = files[Key(p)],
                           !.echoed = @ \/ (/\ calls[p].echo_output
                                            /\ Stdout(files[Key(p)].src) # <<>>)]]
       \/ /\ ~(root /\ Key(p) \in Entries)
          /\ calls' = [calls EXCEPT ![p] = Finish(p, None)]
       \/ /\ root /\ Key(p) \in Entries
          /\ calls' = [calls EXCEPT ![p] = [Finish(p, None) EXCEPT !.fault = TRUE]]
    /\ UNCHANGED <<root, files, last, prevOp, report, verdict, version, built, compiler, wrapped>>

\* control is back with the caller
Return(p) ==
    /\ calls[p].pc = "done"
    /\ last' = [set |-> TRUE, src |-> calls[p].src,
                use_cache |-> calls[p].use_cache, result |-> calls[p].result,
                ncompile |-> calls[p].ncompile,
                compile_rc |-> calls[p].compile_rc, fault |-> calls[p].fault,
                count |-> Cardinality(Entries), cleared |-> FALSE]
    /\ calls' = [calls EXCEPT ![p] = IdleCall]
    /\ prevOp' = "run_mojo"
    /\ UNCHANGED <<root, files, report, verdict, version, built, compiler, wrapped>>

----------------------------------------------------------------------------
(* The other operations *)

\* the directory is not emptied
clear_cache_KeepsFiles ==
    /\ files' = files
    /\ root' = root
    /\ last' = [last EXCEPT !.cleared = TRUE]
    /\ prevOp' = "clear_cache"
    /\ report' = NoReport
    /\ built' = {}
    /\ UNCHANGED <<calls, verdict, version, compiler, wrapped>>

\* lines 201-210
clear_cache ==
    /\ IF root THEN files' = <<>> ELSE files' = files
    /\ root' = root
    /\ last' = [last EXCEPT !.cleared = TRUE]
    /\ prevOp' = "clear_cache"
    /\ report' = NoReport
    /\ built' = {}
    /\ UNCHANGED <<calls, verdict, version, compiler, wrapped>>

\* the bytes are reported as the number of entries
cache_stats_CountsBytes ==
    /\ report' = IF root
                 THEN [shown |-> TRUE, after |-> prevOp, exists |-> TRUE,
                       count |-> SumSizes(DOMAIN files),
                       total_size |-> SumSizes(DOMAIN files)]
                 ELSE [shown |-> TRUE, after |-> prevOp, exists |-> FALSE,
                       count |-> 0, total_size |-> 0]
    /\ prevOp' = "cache_stats"
    /\ UNCHANGED <<root, files, calls, last, verdict, version, built, compiler, wrapped>>

\* lines 213-224
cache_stats ==
    /\ report' = IF root
                 THEN [shown |-> TRUE, after |-> prevOp, exists |-> TRUE,
                       count |-> Cardinality(Entries),
                       total_size |-> SumSizes(Entries)]
                 ELSE [shown |-> TRUE, after |-> prevOp, exists |-> FALSE,
                       count |-> 0, total_size |-> 0]
    /\ prevOp' = "cache_stats"
    /\ UNCHANGED <<root, files, calls, last, verdict, version, built, compiler, wrapped>>

\* lines 17-18 again: the package is imported by a new interpreter
ImportModule ==
    /\ ~root
    /\ root' = TRUE
    /\ prevOp' = "import"
    /\ report' = NoReport
    /\ UNCHANGED <<files, calls, last, verdict, version, built, compiler, wrapped>>

\* the case lines 205 and 215 test for: something outside the package has
\* removed the directory
RemoveRoot ==
    /\ root
    /\ root' = FALSE
    /\ files' = <<>>
    /\ last' = NoLast
    /\ prevOp' = "external"
    /\ report' = NoReport
    /\ UNCHANGED <<calls, verdict, version, built, compiler, wrapped>>

----------------------------------------------------------------------------
(* Sequential use: an operation starts when no call is in progress *)

Call == \E p \in Procs, i \in Sources, uc \in BOOLEAN : Quiet /\ Begin(p, i, uc)

Step == \E p \in Procs :
            \/ Resolve(p) \/ Validate(p) \/ Lookup(p) \/ WriteTmp(p)
            \/ Compile(p) \/ Unlink(p) \/ Execute(p) \/ Return(p)

Clear  == Quiet /\ clear_cache
Stats  == Quiet /\ cache_stats
Import == Quiet /\ ImportModule
Remove == Quiet /\ RemoveRoot

Next == Call \/ Step \/ Clear \/ Stats \/ Import \/ Remove

Spec == Init /\ [][Next]_vars

----------------------------------------------------------------------------
(* Properties *)

Done(p) == calls[p].pc = "done"

\* the call of caller p got as far as it did without a failure of the
\* environment (unreadable file, scratch file that cannot be written,
\* process that cannot be spawned, compiler failing on a text it accepts)
NoFault(p) == ~calls[p].fault

\* the call that returned before the current one was a cached run of the
\* same source that reached a binary, and clear_cache has not run since
PreviousCachedRun(p) ==
    /\ last.set /\ ~last.cleared
    /\ last.src = calls[p].src
    /\ last.use_cache
    /\ ~last.fault
    /\ last.compile_rc # "fail"

\* C1: for a source that passes validation and compiles, of two cached
\* runs in sequence with no clear_cache in between the second returns what
\* the first returned, spawns no compiler and leaves the number of cache
\* entries as the first left it
C1_SecondCachedRunReuses ==
    \A p \in Procs :
        (/\ Done(p) /\ calls[p].use_cache /\ NoFault(p)
         /\ ValidOf[calls[p].src]
         /\ PreviousCachedRun(p))
        => /\ calls[p].result = last.result
           /\ calls[p].ncompile = 0
           /\ Cardinality(Entries) = last.count

C1_Witness ==
    \E p \in Procs :
        /\ Done(p) /\ calls[p].use_cache /\ NoFault(p)
        /\ PreviousCachedRun(p)
        /\ last.compile_rc = "ok" /\ last.ncompile = 1
        /\ calls[p].result = Str(<<"a">>)

\* C2: the binary a call executes was compiled from the text of that call
C2_ExecutesOwnBinary ==
    \A p \in Procs :
        calls[p].ran # NoBinary => calls[p].ran = Binary(Code(p))

C2_Witness ==
    \E p \in Procs :
        /\ Done(p) /\ calls[p].ran # NoBinary
        /\ calls[p].ncompile = 0
        /\ Cardinality(Entries) >= 2
        /\ last.set /\ last.src # calls[p].src

C4_NoRunAfterFailedCompile ==
    \A p \in Procs :
        calls[p].compile_rc = "fail"
        => /\ calls[p].ran = NoBinary
           /\ calls[p].pc \in {"unlink", "done"}
           /\ Done(p) => calls[p].result = None

C4_Witness ==
    \E p \in Procs :
        /\ Done(p) /\ calls[p].compile_rc = "fail"
        /\ ~calls[p].use_cache
        /\ Key(p) \in Entries

C6_FailureCompiledEveryTime ==
    \A p \in Procs :
        (/\ Done(p) /\ NoFault(p)
         /\ ValidOf[calls[p].src] /\ ~Compiles(Code(p)))
        => /\ calls[p].ncompile = 1
           /\ calls[p].compile_rc = "fail"
           /\ calls[p].result = None

C6_Witness ==
    \E p \in Procs :
        /\ Done(p) /\ NoFault(p) /\ calls[p].use_cache
        /\ ValidOf[calls[p].src] /\ ~Compiles(Code(p))
        /\ calls[p].ncompile = 1
        /\ last.set /\ ~last.cleared /\ last.src = calls[p].src
        /\ last.use_cache /\ last.compile_rc = "fail" /\ last.ncompile = 1

\* C7: a call with use_cache = FALSE spawns the compiler, has it write
\* outside CACHE_DIR, and leaves the entries of CACHE_DIR and their content
\* as it found them
C7_UncachedRunBypassesCache ==
    \A p \in Procs :
        (calls[p].pc # "idle" /\ ~calls[p].use_cache)
        => /\ files = calls[p].files0
           /\ ~calls[p].rewrote
           /\ (Done(p) /\ NoFault(p) /\ ValidOf[calls[p].src])
                => calls[p].ncompile = 1

\* C8: no run_mojo call rewrites or removes a file that is in CACHE_DIR:
\* every entry that was there when the call started is still there, with
\* the content it had, and the compiler has not written over it
C8_EntriesNeverRewritten ==
    \A p \in Procs :
        calls[p].pc # "idle"
        => /\ ~calls[p].rewrote
           /\ \A k \in DOMAIN calls[p].files0 :
                 k \in Entries /\ files[k] = calls[p].files0[k]

\* C9 as stated: after clear_cache CACHE_DIR exists and is empty, whatever
\* it was before, and a cache_stats that comes next reports 0 entries and
\* size 0
C9_ClearLeavesEmptyRoot ==
    /\ prevOp = "clear_cache" => (root /\ Entries = {})
    /\ (report.shown /\ report.after = "clear_cache")
         => (report.exists /\ report.count = 0 /\ report.total_size = 0)

\* C9, amended: clear_cache leaves CACHE_DIR without entries, existing if it
\* existed and absent if it was absent; a cache_stats that comes next
\* reports 0 entries and size 0 if the directory exists, and only that the
\* directory does not exist otherwise
C9_ClearEmptiesExistingRoot ==
    [][/\ Clear => (root' = root /\ files' = <<>> /\ Entries' = {})
       /\ (Stats /\ prevOp = "clear_cache")
            => /\ report'.exists = root
               /\ report'.count = 0
               /\ report'.total_size = 0]_vars

C9_Witness ==
    /\ report.shown /\ report.after = "clear_cache"
    /\ report.exists /\ report.count = 0 /\ report.total_size = 0
    /\ last.set /\ last.cleared /\ last.count > 0

\* C10: a call whose binary exits with a non-zero status returns None,
\* whatever the binary wrote and whether or not the call compiled it
C10_NonZeroExitReturnsNone ==
    \A p \in Procs :
        (/\ Done(p) /\ calls[p].ran # NoBinary
         /\ ReturnCode(calls[p].ran.src) # 0)
        => calls[p].result = None

C10_Witness ==
    \E p \in Procs :
        /\ Done(p) /\ calls[p].ran # NoBinary
        /\ ReturnCode(calls[p].ran.src) # 0
        /\ Stdout(calls[p].ran.src) # <<>>
        /\ calls[p].ncompile = 0

----------------------------------------------------------------------------
(* Programs that print nothing *)

\* the sources of tests/test_reference_examples.py: a program that prints,
\* one that prints nothing and one that prints an empty line
CallOutput ==
    \E p \in Procs, i \in {1, 8, 9}, uc \in BOOLEAN : Quiet /\ Begin(p, i, uc)

NextOutput == CallOutput \/ Step \/ Clear \/ Stats \/ Import \/ Remove

SpecOutput == Init /\ [][NextOutput]_vars

\* the call of caller p ran a binary, the binary exited with status 0 and
\* the environment did not fail
RanToSuccess(p) ==
    /\ Done(p) /\ NoFault(p)
    /\ calls[p].ran # NoBinary
    /\ ReturnCode(calls[p].ran.src) = 0

\* C11: a call whose binary exits with status 0 returns the captured
\* standard output, trimmed, as a string: the empty string, and not the null
\* value, when the binary printed nothing
C11_EmptyOutputIsEmptyString ==
    \A p \in Procs :
        RanToSuccess(p)
        => calls[p].result = Str(Strip(Stdout(calls[p].ran.src)))

----------------------------------------------------------------------------
(* Exceptions, the scratch file and the order of the phases *)

\* C12: a run_mojo call ends by returning a value, never by raising:
\* every failure, a process that cannot be spawned and a scratch file that
\* cannot be written included, becomes a null return
C12_NeverRaises ==
    \A p \in Procs : calls[p].result # Raised

\* C13: when a run_mojo call ends, on whatever path, the scratch .mojo file
\* it created is no longer on disk
C13_ScratchFileDeleted ==
    \A p \in Procs : Done(p) => ~calls[p].tmp

\* the phase a position of run_mojo belongs to: 1 validate (lines 96-129),
\* 2 compile-or-fetch (lines 131-161), 3 execute (lines 163-198),
\* 4 finalize (the return), 0 outside a call
Phase(pc) ==
    CASE pc \in {"resolve", "validate"} -> 1
      [] pc \in {"lookup", "write_tmp", "compile", "unlink"} -> 2
      [] pc = "execute" -> 3
      [] pc = "done" -> 4
      [] OTHER -> 0

\* a step of caller p never goes back to an earlier phase, and a call
\* starts from outside and leaves from finalize
PhaseOrder(p) ==
    LET a == Phase(calls[p].pc)
        b == Phase(calls'[p].pc)
    IN  /\ b >= a \/ (a = 4 /\ b = 0)
        /\ (a = 0 /\ b # 0) => b = 1

\* a step of caller p that ends the call ends it with null, unless it is
\* the execute phase handing over the output of the binary
EndsWithNull(p) ==
    (calls[p].pc # "done" /\ calls'[p].pc = "done")
    => \/ calls'[p].result = None
       \/ calls[p].pc = "execute" /\ calls'[p].result[1] = "Str"

\* C14: a call goes through validate, compile-or-fetch, execute and
\* finalize in that order, never backwards and never twice, and a failure in
\* a phase ends the call at once with a null result
C14_LinearPhasesFailureIsNull ==
    [][\A p \in Procs : PhaseOrder(p) /\ EndsWithNull(p)]_vars

\* the part of C14 about the order alone
PhasesInOrder == [][\A p \in Procs : PhaseOrder(p)]_vars

----------------------------------------------------------------------------
(* One text reaching run_mojo from several call sites *)

\* program 1 as a literal, as a file and as an indented literal; the
\* decorated function called with two values and one of its programs
\* written out by hand
ShareSources == {1, 6, 10, 14, 15, 16}

CallShare ==
    \E p \in Procs, i \in ShareSources, uc \in BOOLEAN :
        /\ Quiet
        /\ i \in Decorated => uc
        /\ Begin(p, i, uc)

NextShare == CallShare \/ Step \/ Clear \/ Stats \/ Import \/ Remove

SpecShare == Init /\ [][NextShare]_vars

\* the call that returned before the current one was a cached run that
\* reached a binary, and clear_cache has not run since
PreviousCachedCall ==
    /\ last.set /\ ~last.cleared
    /\ last.use_cache
    /\ ~last.fault
    /\ last.compile_rc # "fail"

\* C15: two cached calls in sequence whose resolved text is the same,
\* whatever source each was given, share one artifact: the second does not
\* compile, the two together compile at most once, the entry of the text is
\* the only one the two calls leave for it, and the second returns what the
\* first returned
C15_SameTextSharesArtifact ==
    \A p \in Procs :
        (/\ Done(p) /\ calls[p].use_cache /\ NoFault(p)
         /\ PreviousCachedCall
         /\ CodeOf[last.src] = Code(p)
         /\ ValidOf[calls[p].src])
        => /\ KeyOf[last.src] = Key(p)
           /\ calls[p].ncompile = 0
           /\ last.ncompile + calls[p].ncompile <= 1
           /\ Cardinality(Entries) = last.count
           /\ Key(p) \in Entries /\ files[Key(p)].src = Code(p)
           /\ calls[p].result = last.result

\* the decorated function compiled the program, the hand-written literal
\* ran it from the cache
C15_Witness ==
    \E p \in Procs :
        /\ Done(p) /\ calls[p].use_cache /\ NoFault(p)
        /\ PreviousCachedCall
        /\ last.src \in Decorated /\ calls[p].src \notin Decorated
        /\ CodeOf[last.src] = Code(p)
        /\ last.ncompile = 1 /\ calls[p].ncompile = 0
        /\ calls[p].result = Str(<<"5">>)

----------------------------------------------------------------------------
(* What the cache key is computed from *)

\* program 1 as written in the tests, as an indented literal and as a
\* triple-quoted literal with a leading and a trailing newline
NormSources == {1, 10, 11}

CallNorm ==
    \E p \in Procs, i \in NormSources, uc \in BOOLEAN : Quiet /\ Begin(p, i, uc)

NextNorm == CallNorm \/ Step \/ Clear \/ Stats \/ Import \/ Remove

SpecNorm == Init /\ [][NextNorm]_vars

\* textwrap.dedent of each inline source, and the same text after strip()
Dedented == [i \in AllSources |-> dedent(Catalogue[i].text)]
Trimmed  == [i \in AllSources |-> Strip(Dedented[i])]

\* the current call of caller p and the call that returned before it are
\* cached runs of inline sources that are equal after dedent and strip
EqualAfterDedentAndTrim(p) ==
    /\ Done(p) /\ calls[p].use_cache /\ NoFault(p)
    /\ PreviousCachedCall
    /\ ValidOf[calls[p].src]
    /\ ~Catalogue[last.src].file /\ ~Catalogue[calls[p].src].file
    /\ Trimmed[last.src] = Trimmed[calls[p].src]

----------------------------------------------------------------------------
(* The decorator *)

\* the decorated function called with two values, and run_mojo called on
\* the two literal sources
DecoratorSources == {14, 15, 17, 18}

CallDecorator ==
    \E p \in Procs, i \in DecoratorSources, uc \in BOOLEAN :
        /\ Quiet
        /\ i \in Decorated => uc
        /\ Begin(p, i, uc)

NextDecorator == CallDecorator \/ Step \/ Clear \/ Stats \/ Import \/ Remove

SpecDecorator == Init /\ [][NextDecorator]_vars

\* source i is a decorated call and source j the direct call on its
\* literal, or the other way round
SameValue(i, j) ==
    \/ i \in Decorated /\ j = LiteralOf[i]
    \/ j \in Decorated /\ i = LiteralOf[j]

\* C17: the source a decorated call hands to run_mojo is the template with
\* str(v) written in place of the placeholder; the decorated call has the
\* cache key of the direct call on the literal source, and of the two run one
\* after the other the second runs the binary of the first and returns the
\* same output
C17_SubstitutionEqualsLiteral ==
    \A p \in Procs :
        /\ (Done(p) /\ calls[p].src \in Decorated)
           => /\ Catalogue[calls[p].src].text
                    = Catalogue[LiteralOf[calls[p].src]].text
              /\ Key(p) = KeyOf[LiteralOf[calls[p].src]]
        /\ (/\ Done(p) /\ calls[p].use_cache /\ NoFault(p)
            /\ PreviousCachedCall
            /\ SameValue(last.src, calls[p].src))
           => /\ calls[p].ncompile = 0
              /\ calls[p].ran.src = CodeOf[last.src]
              /\ calls[p].result = last.result

\* the decorated function was called with 5, then run_mojo on the literal
C17_Witness ==
    \E p \in Procs :
        /\ Done(p) /\ calls[p].use_cache /\ NoFault(p)
        /\ PreviousCachedCall
        /\ last.src = 14 /\ calls[p].src = 17
        /\ last.ncompile = 1 /\ calls[p].ncompile = 0
        /\ calls[p].result = Str(<<"5">>)

\* C18: once a call of the decorated function has compiled its binary, a
\* later call of the same function with another argument value runs from
\* the cache and spawns no compiler
C18_OtherArgumentRunsFromCache ==
    \A p \in Procs :
        (/\ Done(p) /\ NoFault(p)
         /\ calls[p].src \in Decorated
         /\ PreviousCachedCall
         /\ last.src \in Decorated /\ last.src # calls[p].src)
        => calls[p].ncompile = 0

----------------------------------------------------------------------------
(* The validator called directly *)

\* the answer depends on what the cache holds
ValidateCall_ReadsCache(code) ==
    /\ verdict' = [code   |-> code,
                   out    |-> IF DOMAIN files # {} THEN <<TRUE, NoError>>
                              ELSE validate_mojo_code(code),
                   again  |-> (verdict.out # NotYet /\ verdict.code = code),
                   before |-> IF verdict.code = code THEN verdict.out ELSE NotYet]
    /\ UNCHANGED <<root, files, calls, last, prevOp, report, version, built, compiler, wrapped>>

\* validate_mojo_code(code) called by a client, as the tests do
ValidateCall(code) ==
    /\ verdict' = [code   |-> code,
                   out    |-> validate_mojo_code(code),
                   again  |-> (verdict.out # NotYet /\ verdict.code = code),
                   before |-> IF verdict.code = code THEN verdict.out ELSE NotYet]
    /\ UNCHANGED <<root, files, calls, last, prevOp, report, version, built, compiler, wrapped>>

\* the lines a probe text is made of; each group has the empty choice <<>>.
\* A text lists its lines in the reverse of the order of the checks
HeaderLines == {<<>>, MainDecl, <<"def", SP, "main()", ":">>, <<"fn", SP, "main()">>}
RangeLines  == {<<>>, Ind(<<"for", SP, "x", SP, "in", SP, "range", SP, "1", ":">>)}
TypeLines   == {<<>>} \cup {Ind(<<"var", SP, "x", ":", SP, t, SP, "=", SP, "1">>) :
                                t \in {"int", "str", "bool"}}
PrintLines  == {<<>>, Ind(<<"print", SP, "a">>)}
LetLines    == {<<>>, Ind(<<"let", SP, "x", SP, "=", SP, "1">>)}
BodyLines   == {<<>>, Ind(PrintA), <<TAB>> \o PrintA}
DeclLines   == {<<>>, <<"fn", SP, "helper()">>}
ScopeLines  == {<<>>, <<"var", SP, "x", SP, "=", SP, "1">>}

\* the lines that were chosen, joined by newlines
ProbeText(chosen) == Join(SelectSeq(chosen, LAMBDA l : l # <<>>))

\* the texts validate_mojo_code is called with: every choice of lines, and
\* a text of blank characters only
Probes ==
    {ProbeText(<<h, r, t, pr, l, b, d, s>>) :
        h \in HeaderLines, r \in RangeLines, t \in TypeLines, pr \in PrintLines,
        l \in LetLines, b \in BodyLines, d \in DeclLines, s \in ScopeLines}
    \cup {<<SP, NL, SP>>}

\* a client is about to call validate_mojo_code on one of the texts; the
\* cache is as at import
InitValidate ==
    /\ root = TRUE
    /\ files = <<>>
    /\ calls = [p \in Procs |-> IdleCall]
    /\ last = NoLast
    /\ prevOp = "import"
    /\ report = NoReport
    /\ verdict \in {[NoVerdict EXCEPT !.code = code] : code \in Probes}
    /\ version = NoVersion
    /\ built = {}
    /\ compiler = 1
    /\ wrapped = NoWrapped

Probe == verdict.out = NotYet /\ ValidateCall(verdict.code)

SpecValidate == InitValidate /\ [][Probe]_vars

\* the checks in the order of the claim
Checks == 1..9

\* validator.py, the condition under which check k rejects the code, taken
\* on its own
Violates(k, code) ==
    LET lines == Split(Strip(code))
    IN  CASE k = 1 -> Strip(code) = <<>>
          [] k = 2 -> ~(HasMainDecl(code, "fn") \/ HasMainDecl(code, "def"))
          [] k = 3 -> /\ \E i \in 1..Len(lines) :
                            /\ Strip(lines[i]) # <<>>
                            /\ \E j \in 1..Len(lines[i]) : lines[i][j] = TAB
                      /\ \E i \in 1..Len(lines) : StartsWith(lines[i], <<SP>>)
          [] k = 4 -> FileScopeLines(lines) # {}
          [] k = 5 -> MissingColonLines(lines) # {}
          [] k = 6 -> HasLet(code)
          [] k = 7 -> HasBarePrint(code)
          [] k = 8 -> \E t \in {"int", "str", "bool"} : HasLowerType(code, t)
          [] k = 9 -> HasBareRange(code)

\* the check an error message belongs to
CheckOf(error_message) ==
    CASE error_message[1] = "Empty code provided" -> 1
      [] error_message[1] = "Missing 'fn main()' or 'def main()' - Mojo executables require a main function" -> 2
      [] error_message[1] = "Mixed tabs and spaces in indentation" -> 3
      [] error_message[1] = "Line" /\ Len(error_message) = 4 -> 4
      [] error_message[1] = "Line" /\ Len(error_message) = 3 -> 5
      [] error_message[1] = "'let' keyword is deprecated in Mojo - use 'var' instead" -> 6
      [] error_message[1] = "print requires parentheses: print(...) not print ..." -> 7
      [] error_message[1] \in {"Use 'Int' (capitalized) for integer types in Mojo, not 'int'",
                               "Use 'String' for string types in Mojo, not 'str'",
                               "Use 'Bool' (capitalized) for boolean types in Mojo, not 'bool'"} -> 8
      [] error_message[1] = "'range' requires parentheses: range(n) not range n" -> 9
      [] OTHER -> 0

\* the checks the code of the last direct call violates
Violated == {k \in Checks : Violates(k, verdict.code)}

\* C19: validate_mojo_code returns one reason, that of the earliest check,
\* in the order empty, missing main, mixed tabs and spaces, statement at
\* file scope, missing colon, let, print without parentheses, lowercase type
\* name, range without parentheses, that the code violates; it accepts the
\* code when no check is violated
C19_FirstViolatedCheckReported ==
    verdict.out # NotYet
    => IF Violated = {}
       THEN verdict.out = <<TRUE, NoError>>
       ELSE /\ verdict.out[1] = FALSE
            /\ CheckOf(verdict.out[2]) = Min(Violated)

\* a text that violates every check but the first was reported for the
\* missing main function
C19_Witness ==
    /\ verdict.out # NotYet
    /\ Violated = Checks \ {1}
    /\ CheckOf(verdict.out[2]) = 2

----------------------------------------------------------------------------
(* Empty sources *)

\* program 1, the empty string and a string of blank characters
BlankSources == {1, 7, 13}

CallBlank ==
    \E p \in Procs, i \in BlankSources, uc \in BOOLEAN : Quiet /\ Begin(p, i, uc)

\* a client calls the validator on one of the same texts
ValidateBlank ==
    \E i \in BlankSources : Quiet /\ ValidateCall(Catalogue[i].text)

NextBlank ==
    CallBlank \/ ValidateBlank \/ Step \/ Clear \/ Stats \/ Import \/ Remove

SpecBlank == Init /\ [][NextBlank]_vars

\* the text has no character that is not white space
Blank(text) == \A j \in 1..Len(text) : IsSpace(text[j])

\* C20: for a source that is empty or made of white space only,
\* validate_mojo_code answers false with the reason "Empty code provided",
\* and run_mojo returns null, spawns neither the compiler nor a binary,
\* writes no scratch file and leaves the cache as it was
C20_BlankSourceRejected ==
    /\ (verdict.out # NotYet /\ Blank(verdict.code))
       => verdict.out = <<FALSE, <<"Empty code provided">> >>
    /\ \A p \in Procs :
          (/\ Done(p)
           /\ ~Catalogue[calls[p].src].file
           /\ Blank(Catalogue[calls[p].src].text))
          => /\ calls[p].result = None
             /\ calls[p].ncompile = 0
             /\ calls[p].ntmp = 0
             /\ calls[p].ran = NoBinary
             /\ root = calls[p].root0
             /\ files = calls[p].files0

\* with an entry in the cache, the validator has rejected the string of
\* blank characters and run_mojo has returned from a call on it
C20_Witness ==
    \E p \in Procs :
        /\ Done(p) /\ calls[p].src = 13
        /\ calls[p].result = None
        /\ Entries # {}
        /\ verdict.code = <<SP, NL, SP>>
        /\ verdict.out = <<FALSE, <<"Empty code provided">> >>

----------------------------------------------------------------------------
(* get_mojo_version *)

\* what `import mojo` finds: the package may be missing; its __version__ or
\* version attribute may be missing or not a string; the string may be blank,
\* a bare number or a line that starts with "Mojo "
Packages ==
    {[importable |-> FALSE, is_str |-> FALSE, text |-> <<>>],
     [importable |-> TRUE,  is_str |-> FALSE, text |-> <<>>],
     [importable |-> TRUE,  is_str |-> TRUE,  text |-> <<SP>>],
     [importable |-> TRUE,  is_str |-> TRUE,  text |-> <<"25.1">>],
     [importable |-> TRUE,  is_str |-> TRUE,  text |-> <<"Mojo", SP, "25.1">>]}

\* what the version command can print
VersionOutputs ==
    {<<>>, <<NL>>, <<"Mojo", SP, "25.1", NL>>, <<"usage:", SP, "mojo", NL>>}

\* what `mojo --version` does: the executable may be missing; it may exit
\* with any status and print any of the texts
Commands ==
    {[found |-> FALSE, returncode |-> 0, stdout |-> <<>>]}
    \cup {[found |-> TRUE, returncode |-> rc, stdout |-> out] :
            rc \in {0, 1}, out \in VersionOutputs}

\* what the shell prints for a command it does not find
ShellNotFound == <<"sh:", SP, "mojo:", SP, "not", SP, "found", NL>>

Unknown == Str(<<"Unknown">>)

\* py_run_mojo/executor.py, lines 22-68
get_mojo_version(pkg, cli) ==
    IF pkg.importable /\ pkg.is_str /\ Strip(pkg.text) # <<>>
    THEN IF StartsWith(pkg.text, <<"Mojo", SP>>)
         THEN Str(Strip(pkg.text))
         ELSE Str(<<"Mojo", SP>> \o Strip(pkg.text))
    ELSE IF ~cli.found THEN Unknown
    ELSE IF cli.returncode # 0 THEN Unknown
    ELSE IF Strip(cli.stdout) = <<>>
            \/ ~StartsWith(Strip(cli.stdout), <<"Mojo", SP>>) THEN Unknown
    ELSE Str(Strip(cli.stdout))

\* mojo_marimo/mo_run_cached.py, lines 21-26: subprocess.getoutput runs the
\* command through the shell and returns what was printed, whatever the exit
\* status; a missing executable is the shell's message, not an exception
get_mojo_version_cached(cli) ==
    IF cli.found THEN Str(Strip(cli.stdout)) ELSE Str(Strip(ShellNotFound))

Implementations == {"py_run_mojo.executor", "mojo_marimo.mo_run_cached"}

\* a client is about to ask one of the two modules for the version
InitVersion ==
    /\ root = TRUE
    /\ files = <<>>
    /\ calls = [p \in Procs |-> IdleCall]
    /\ last = NoLast
    /\ prevOp = "import"
    /\ report = NoReport
    /\ verdict = NoVerdict
    /\ version \in {[impl |-> m, pkg |-> pkg, cli |-> cli, out |-> NotYet] :
                        m \in Implementations, pkg \in Packages, cli \in Commands}
    /\ built = {}
    /\ compiler = 1
    /\ wrapped = NoWrapped

VersionCall ==
    /\ version.out = NotYet
    /\ version' = [version EXCEPT !.out =
                      IF version.impl = "py_run_mojo.executor"
                      THEN get_mojo_version(version.pkg, version.cli)
                      ELSE get_mojo_version_cached(version.cli)]
    /\ UNCHANGED <<root, files, calls, last, prevOp, report, verdict, built, compiler, wrapped>>

SpecVersion == InitVersion /\ [][VersionCall]_vars

\* the version command did not give a version line
NoVersionLine(cli) ==
    \/ ~cli.found
    \/ cli.returncode # 0
    \/ ~StartsWith(Strip(cli.stdout), <<"Mojo", SP>>)

\* the version cannot be determined by the module that was asked: the
\* command gave no version line and, for the module that looks at the
\* package first, the package gave no version either
Undetermined ==
    /\ NoVersionLine(version.cli)
    /\ version.impl = "py_run_mojo.executor"
       => ~(version.pkg.importable /\ version.pkg.is_str
            /\ Strip(version.pkg.text) # <<>>)

\* C21: get_mojo_version returns a string that is not empty, never raises,
\* and returns exactly "Unknown" whenever the version cannot be determined
C21_VersionOrUnknown ==
    version.out # NotYet
    => /\ version.out # Raised
       /\ version.out[1] = "Str" /\ version.out[2] # <<>>
       /\ Undetermined => version.out = Unknown

\* the part of C21 that holds: the function of py_run_mojo/executor.py
VersionOfExecutor ==
    (version.out # NotYet /\ version.impl = "py_run_mojo.executor")
    => /\ version.out[1] = "Str" /\ version.out[2] # <<>>
       /\ Undetermined => version.out = Unknown

----------------------------------------------------------------------------
(* The echo flags *)

\* a program that runs, one the compiler rejects and one the validator
\* rejects
\* extra_args left out, and one argument
CallEcho ==
    \E p \in Procs, i \in {1, 4, 5}, uc \in BOOLEAN,
       ec \in BOOLEAN, eo \in BOOLEAN, xa \in {<<>>, <<"x">>} :
        Quiet /\ BeginWith(p, i, uc, ec, eo, xa)

NextEcho == CallEcho \/ Step \/ Clear \/ Stats \/ Import \/ Remove

SpecEcho == Init /\ [][NextEcho]_vars

\* the directory content that holds binary b at key k on top of content f
WithEntry(f, k, b) ==
    [x \in DOMAIN f \cup {k} |-> IF x = k THEN b ELSE f[x]]

\* what a call of run_mojo returns, whether it compiles and what it leaves
\* in the cache directory when the environment does not fail, from the
\* source, use_cache, extra_args and the directory it starts from
Outcome(i, uc, xa, r0, f0) ==
    IF EmptySource(i) \/ ~ValidOf[i]
    THEN [result |-> None, ncompile |-> 0, files |-> f0]
    ELSE IF ~uc \/ ~(r0 /\ KeyOf[i] \in DOMAIN f0)
    THEN IF r0 /\ Compiles(CodeOf[i])
         THEN [result   |-> RunResult(Stdout(CodeOf[i]), ReturnCode(CodeOf[i])),
               ncompile |-> 1,
               files    |-> WithEntry(f0, KeyOf[i], Binary(CodeOf[i]))]
         ELSE [result |-> None, ncompile |-> 1, files |-> f0]
    ELSE [result   |-> RunResult(Stdout(f0[KeyOf[i]].src),
                                 ReturnCode(f0[KeyOf[i]].src)),
          ncompile |-> 0,
          files    |-> f0]

\* C22: what a call returns, whether it compiles or reuses and the cache
\* it leaves are determined by the source, use_cache, extra_args and the
\* cache it started from; two calls that differ in echo_code or echo_output
\* only have the same outcome
C22_EchoIsDiagnostic ==
    \A p \in Procs :
        (Done(p) /\ NoFault(p))
        => [result   |-> calls[p].result,
            ncompile |-> calls[p].ncompile,
            files    |-> files]
           = Outcome(calls[p].src, calls[p].use_cache, calls[p].extra_args,
                     calls[p].root0, calls[p].files0)

\* a call with both flags set printed its diagnostics, compiled and
\* returned the output
C22_Witness ==
    \E p \in Procs :
        /\ Done(p) /\ NoFault(p)
        /\ calls[p].echo_code /\ calls[p].echo_output /\ calls[p].echoed
        /\ calls[p].extra_args # <<>>
        /\ calls[p].ncompile = 1
        /\ calls[p].result = Str(<<"a">>)

----------------------------------------------------------------------------
(* Counting the entries *)

\* two programs that compile, one the compiler rejects and one the
\* validator rejects
\* run_mojo with use_cache at its default
CallCount == \E p \in Procs, i \in {1, 2, 4, 5} : Quiet /\ Begin(p, i, TRUE)

\* histories of cached run_mojo calls, clear_cache and cache_stats
NextCount == CallCount \/ Step \/ Clear \/ Stats

SpecCount == Init /\ [][NextCount]_vars

\* C24: in a sequential history of cached run_mojo calls and clear_cache
\* calls the entries of the storage root are the keys compiled with success
\* since the last clear_cache, and cache_stats reports their number; one
\* program run twice leaves one entry
C24_EntriesAreKeysBuilt ==
    /\ Entries = built
    /\ report.shown => report.count = Cardinality(built)
    /\ \A p \in Procs :
          (Done(p) /\ built = {Key(p)}) => Cardinality(Entries) = 1

\* two programs were compiled, the one called last was run a second time
\* from the cache, and cache_stats has counted two entries
C24_Witness ==
    /\ report.shown /\ report.count = 2
    /\ built = {KeyOf[1], KeyOf[2]}
    /\ last.set /\ last.ncompile = 0 /\ last.src = 1
    /\ last.result = Str(<<"a">>)

----------------------------------------------------------------------------
(* A compiler upgrade between calls *)

\* the versions of mojo that are installed one after the other
MaxCompiler == 2

\* between two calls another mojo replaces the one on PATH; CACHE_DIR is
\* not touched
UpgradeCompiler ==
    /\ Quiet
    /\ compiler < MaxCompiler
    /\ compiler' = compiler + 1
    /\ UNCHANGED <<root, files, calls, last, prevOp, report, verdict, version, built, wrapped>>

\* a program that runs, one that exits non-zero, one the compiler rejects
CallUpgrade == \E p \in Procs, i \in {1, 2, 4} : Quiet /\ Begin(p, i, TRUE)

\* histories of cached run_mojo calls, clear_cache and compiler upgrades
NextUpgrade == CallUpgrade \/ Step \/ Clear \/ UpgradeCompiler

SpecUpgrade == Init /\ [][NextUpgrade]_vars

\* the binaries of the text of caller p that were in the cache when its
\* call started
BuiltBefore(p) ==
    {calls[p].files0[k] : k \in {x \in DOMAIN calls[p].files0 :
                                     calls[p].files0[x].src = Code(p)}}

\* C27: a cached call whose text has a binary in the cache when the call
\* starts starts no compiler and spawns that binary, whichever compiler is
\* installed now and whichever built the binary; a binary of an older
\* compiler is in the cache only while clear_cache has not been called
C27_UpgradeReusesOldBinary ==
    /\ \A p \in Procs :
          (/\ calls[p].pc = "done"
           /\ calls[p].use_cache
           /\ calls[p].root0
           /\ BuiltBefore(p) # {})
          => /\ calls[p].ncompile = 0
             /\ \/ calls[p].ran \in BuiltBefore(p)
                \/ calls[p].fault /\ calls[p].ran = NoBinary /\ calls[p].result = None
    /\ \A k \in Entries :
          files[k].by < compiler => last.set /\ ~last.cleared

\* after an upgrade a call has run the binary the old compiler built
C27_Witness ==
    \E p \in Procs :
        /\ calls[p].pc = "done"
        /\ calls[p].src = 1
        /\ calls[p].ncompile = 0
        /\ calls[p].ran = [src |-> CodeOf[1], size |-> Len(CodeOf[1]), by |-> 1]
        /\ compiler = 2
        /\ calls[p].result = Str(<<"a">>)

----------------------------------------------------------------------------
(* A binary that fails at run time *)

\* C29: a call that has spawned a binary that exits non-zero returns None
\* and leaves that binary at its key; a cached call that starts with such a
\* binary at its key starts no compiler, spawns it and returns None
C29_FailingBinaryStaysCached ==
    \A p \in Procs :
        /\ (/\ calls[p].pc = "done"
            /\ calls[p].ran # NoBinary
            /\ ReturnCode(calls[p].ran.src) # 0)
           => /\ calls[p].result = None
              /\ root /\ Key(p) \in Entries
              /\ files[Key(p)] = calls[p].ran
        /\ (/\ calls[p].pc = "done"
            /\ calls[p].use_cache
            /\ calls[p].root0
            /\ Key(p) \in DOMAIN calls[p].files0
            /\ ReturnCode(calls[p].files0[Key(p)].src) # 0)
           => /\ calls[p].ncompile = 0
              /\ calls[p].result = None
              /\ calls[p].fault \/ calls[p].ran = calls[p].files0[Key(p)]

\* the call before compiled the program and got None from it; this call
\* ran the same binary from the cache and got None
C29_Witness ==
    \E p \in Procs :
        /\ last.set /\ last.src = 2 /\ last.use_cache
        /\ last.compile_rc = "ok" /\ last.ncompile = 1 /\ last.result = None
        /\ ~last.fault /\ ~last.cleared
        /\ calls[p].pc = "done" /\ calls[p].src = 2 /\ calls[p].use_cache
        /\ calls[p].ncompile = 0
        /\ calls[p].ran = Binary(CodeOf[2])
        /\ Stdout(calls[p].ran.src) # <<>>
        /\ calls[p].result = None
        /\ Key(p) \in Entries

----------------------------------------------------------------------------
(* The value a decorated function returns *)

\* decorator.py lines 73-83: run_mojo has returned to the wrapper, which
\* reads the return annotation and converts; an exception of run_mojo or of
\* the conversion leaves the wrapper
WrapperReturn(p, return_type) ==
    /\ calls[p].pc = "done"
    /\ wrapped' = [set         |-> TRUE,
                   return_type |-> return_type,
                   result      |-> calls[p].result,
                   value       |-> IF calls[p].result = Raised THEN Raised
                                   ELSE Convert(return_type, calls[p].result)]
    /\ last' = [set |-> TRUE, src |-> calls[p].src,
                use_cache |-> calls[p].use_cache, result |-> calls[p].result,
                ncompile |-> calls[p].ncompile,
                compile_rc |-> calls[p].compile_rc, fault |-> calls[p].fault,
                count |-> Cardinality(Entries), cleared |-> FALSE]
    /\ calls' = [calls EXCEPT ![p] = IdleCall]
    /\ prevOp' = "run_mojo"
    /\ UNCHANGED <<root, files, report, verdict, version, built, compiler>>

\* docstrings of decorated functions: one that exits non-zero, one the
\* compiler rejects, one without main, one that prints an empty line, and
\* the echo function called with 0 and with False
\* the wrapper passes use_cache=True (line 73)
CallConvert == \E p \in Procs, i \in {2, 4, 5, 9, 19, 20} : Quiet /\ Begin(p, i, TRUE)

StepConvert == \E p \in Procs :
                   \/ Resolve(p) \/ Validate(p) \/ Lookup(p) \/ WriteTmp(p)
                   \/ Compile(p) \/ Unlink(p) \/ Execute(p)

ReturnConvert == \E p \in Procs, t \in {"int", "bool", "float", "str"} : WrapperReturn(p, t)

NextConvert == CallConvert \/ StepConvert \/ ReturnConvert

SpecConvert == Init /\ [][NextConvert]_vars

\* C30: a decorated function whose run_mojo call returned None or "" returns
\* 0 for int, False for bool, 0.0 for float and the result as it is
\* otherwise, without raising; this is the value it returns when the
\* program printed 0 (int, float) or False (bool)
C30_FailureGivesTypeDefault ==
    LET Default(return_type, result) ==
            CASE return_type = "int"   -> <<"int", 0>>
              [] return_type = "bool"  -> <<"bool", FALSE>>
              [] return_type = "float" -> <<"float", 0>>
              [] OTHER                 -> result
    IN
    wrapped.set =>
        /\ wrapped.result \in {None, Str(<<>>)}
           => wrapped.value = Default(wrapped.return_type, wrapped.result)
        /\ (wrapped.return_type \in {"int", "float"} /\ wrapped.result = Str(<<"0">>))
           => wrapped.value = Default(wrapped.return_type, wrapped.result)
        /\ (wrapped.return_type = "bool" /\ wrapped.result = Str(<<"False">>))
           => wrapped.value = Default(wrapped.return_type, wrapped.result)

\* an int function whose program was compiled and exited non-zero has
\* returned 0, the value an int function returns whose program printed 0
C30_Witness ==
    /\ wrapped.set
    /\ wrapped.return_type = "int"
    /\ wrapped.result = None
    /\ last.src = 2 /\ last.compile_rc = "ok" /\ ~last.fault
    /\ wrapped.value = <<"int", 0>>
    /\ wrapped.value = Convert("int", Str(<<"0">>))

----------------------------------------------------------------------------
(* Concurrent use: run_mojo calls and clear_cache interleave *)

\* the output file while mojo build is writing it
Partial == [src |-> <<"partial">>, size |-> 1, by |-> 0]

\* no second compiler is started on a path another compiler is writing
CompileStart_Locked(p) ==
    /\ calls[p].pc = "compile"
    /\ \A q \in Procs \ {p} :
          ~(calls[q].pc = "compiling" /\ Key(q) = Key(p))
    /\ \/ /\ calls' = [calls EXCEPT ![p].pc = "compiling", ![p].ncompile = @ + 1,
                                    ![p].rewrote = (Key(p) \in Entries)]
          /\ \/ files' = files
             \/ /\ root /\ Compiles(Code(p))
                /\ files' = WithEntry(files, Key(p), Partial)
       \/ /\ files' = files
          /\ calls' = [calls EXCEPT ![p].pc = "unlink",
                                    ![p].compile_rc = "raise", ![p].fault = TRUE]
    /\ UNCHANGED <<root, last, prevOp, report, verdict, version, built, compiler, wrapped>>

\* lines 149-154, the compiler process is spawned: it runs until CompileEnd.
\* A compiler that accepts the text creates its output file at some moment
\* of its run, here either at once or at the end
CompileStart(p) ==
    /\ calls[p].pc = "compile"
    /\ \/ /\ calls' = [calls EXCEPT ![p].pc = "compiling", ![p].ncompile = @ + 1,
                                    ![p].rewrote = (OutputPath(p) \in Entries)]
          /\ \/ files' = files
             \/ /\ root /\ Compiles(Code(p))
                /\ files' = WithEntry(files, OutputPath(p), Partial)
       \/ /\ files' = files                            \* the spawn fails
          /\ calls' = [calls EXCEPT ![p].pc = "unlink",
                                    ![p].compile_rc = "raise", ![p].fault = TRUE]
    /\ UNCHANGED <<root, last, prevOp, report, verdict, version, built, compiler, wrapped>>

\* the compiler process exits: with status 0 and the binary at the output
\* path, or with another status and no file of its own left there
CompileEnd(p) ==
    /\ calls[p].pc = "compiling"
    /\ \/ /\ root /\ Compiles(Code(p))
          /\ files' = WithEntry(files, OutputPath(p), Binary(Code(p)))
          /\ calls' = [calls EXCEPT ![p].pc = "unlink", ![p].compile_rc = "ok"]
          /\ built' = built \cup {OutputPath(p)}
       \/ /\ ~(root /\ Compiles(Code(p)))
          /\ files' = files
          /\ calls' = [calls EXCEPT ![p].pc = "unlink", ![p].compile_rc = "fail"]
          /\ built' = built
       \/ /\ root /\ Compiles(Code(p))       \* the compiler is stopped half-way
          /\ \/ files' = files
             \/ files' = [k \in {x \in Entries : x # OutputPath(p) \/ files[x] # Partial}
                              |-> files[k]]
          /\ calls' = [calls EXCEPT ![p].pc = "unlink", ![p].compile_rc = "fail",
                                    ![p].fault = TRUE]
          /\ built' = built
    /\ UNCHANGED <<root, last, prevOp, report, verdict, version, compiler, wrapped>>

\* one program that compiles and one the compiler rejects
\* a caller starts a cached call whatever the other callers are doing;
\* each caller makes one call
CallConc == \E p \in Procs, i \in {1, 4} : Begin(p, i, TRUE)

StepConc == \E p \in Procs :
                \/ Resolve(p) \/ Validate(p) \/ Lookup(p) \/ WriteTmp(p)
                \/ CompileStart(p) \/ CompileEnd(p) \/ Unlink(p)
                \/ Execute(p)

\* clear_cache runs between any two steps of the callers
NextConc == CallConc \/ StepConc \/ clear_cache

SpecConc == Init /\ [][NextConc]_vars

\* C25 (as stated): a file is at a cache path only once the compile that
\* produces it has exited with status 0, so that no call finds and executes
\* a file that a compiler is still writing or that a failed compile left
C25_EntryOnlyAfterConfirmedCompile ==
    /\ \A k \in Entries : files[k] # Partial
    /\ \A p \in Procs : calls[p].ran # Partial

\* C28: a call that is about to spawn the binary and finds no file at the
\* path of its key returns None, starts no compiler and leaves the cache as
\* it is
C28_ClearedBeforeSpawnReturnsNull ==
    [][\A p \in Procs :
          (/\ calls[p].pc = "execute"
           /\ calls'[p].pc = "done"
           /\ ~(root /\ Key(p) \in Entries))
          => /\ calls'[p].result = None
             /\ calls'[p].ncompile = calls[p].ncompile
             /\ files' = files
             /\ root' = root]_vars

\* clear_cache has run between the lookup and the spawn of one call that
\* found the entry, and between the compile and the spawn of another
C28_Witness ==
    \E p, q \in Procs :
        /\ prevOp = "clear_cache"
        /\ calls[p].pc = "done" /\ calls[q].pc = "done"
        /\ calls[p].src = 1 /\ calls[q].src = 1
        /\ calls[p].ncompile = 0 /\ calls[p].compile_rc = "none"
        /\ calls[q].ncompile = 1 /\ calls[q].compile_rc = "ok"
        /\ calls[p].ran = NoBinary /\ calls[q].ran = NoBinary
        /\ ~calls[p].fault /\ ~calls[q].fault
        /\ calls[p].result = None /\ calls[q].result = None
        /\ Entries = {}

\* C26: nothing makes a call wait before it starts the compiler, whatever
\* the other calls are doing with the same key, and when a compiler exits
\* with status 0 the file at the key is the one it wrote, whatever was there
C26_NoLockLastWriterWins ==
    [][\A p \in Procs :
          /\ calls[p].pc = "compile" => ENABLED CompileStart(p)
          /\ (/\ calls[p].pc = "compiling"
              /\ calls'[p].pc = "unlink"
              /\ calls'[p].compile_rc = "ok")
             => /\ Key(p) \in DOMAIN files'
                /\ files'[Key(p)] = Binary(Code(p))]_vars

\* two calls with one key have both found the entry absent and both have a
\* compiler running that writes to the path of the key
C26_Witness ==
    \E p, q \in Procs :
        /\ p # q
        /\ calls[p].pc = "compiling" /\ calls[q].pc = "compiling"
        /\ calls[p].use_cache /\ calls[q].use_cache
        /\ Key(p) = Key(q)
        /\ calls[p].ncompile = 1 /\ calls[q].ncompile = 1
        /\ root /\ Key(p) \in Entries

====
